---- MODULE Spec2Model ----
(***************************************************************************)
(* Model of app/main.py of csv-converter-api: the two conversion functions *)
(* convert_sk_to_wp and convert_wp_to_sk over pandas DataFrames, the four  *)
(* POST handlers that wrap them, and the command-line entry point.         *)
(*                                                                         *)
(* A DataFrame is a record [columns, rows]: columns is the ordered list of *)
(* distinct column names, rows the ordered list of rows, each row a        *)
(* function from the column names to cell values.  Cell values are         *)
(* integers; the names of the columns are strings.                         *)
(***************************************************************************)
EXTENDS Integers, Sequences, FiniteSets, TLC

VARIABLES
    sk_csv,     \* the DataFrame object bound to parameter sk_csv
    wp_csv,     \* the DataFrame object bound to parameter wp_csv
    sk_in,      \* value of sk_csv when the function was entered
    wp_in,      \* value of wp_csv when the function was entered
    called,     \* which conversion function has been called, "none" before
    result,     \* what the call produced: a DataFrame or an exception
    \* the HTTP service
    sk_reference,   \* the file resources/sk-reference.csv
    wp_reference,   \* the file resources/wp-reference.csv
    pc,             \* per request: "idle", "awaiting" (in await file.read()), "done"
    request,        \* per request: the endpoint called and the payload sent
    upload,         \* per request: parameter file of its handler
    tried,          \* per request: how the handler's try block ended
    response,       \* per request: the response sent
    \* the command line
    argv,           \* the arguments given: direction, input_file, output_file
    files,          \* the file system: path -> file
    files_in,       \* the file system when the program was started
    exit            \* "running", "done", or "crashed" on an unhandled exception

convVars == <<sk_csv, wp_csv, sk_in, wp_in, called, result>>
httpVars == <<sk_reference, wp_reference, pc, request, upload, tried, response>>
cliVars == <<argv, files, files_in, exit>>

----------------------------------------------------------------------------
(* Bounds of the model *)

MaxRows == 2

\* number of HTTP requests in flight together
MaxRequests == 2

\* cell values that occur in the tables given to the program
Values == {1, 2}

\* column names that occur in the tables given to the program
ColumnNames == {"ID", "Name", "Price"}

----------------------------------------------------------------------------
(* DataFrames *)

Range(s) == {s[i] : i \in 1..Len(s)}

\* lists of one or two distinct column names, and the full three-column schema
ColumnLists ==
    {<<a>> : a \in ColumnNames}
    \cup {<<a, b>> : <<a, b>> \in {p \in ColumnNames \X ColumnNames : p[1] # p[2]}}
    \cup {<<"ID", "Name", "Price">>}

TablesOf(cl, n) ==
    {[columns |-> cl, rows |-> rs] : rs \in [1..n -> [Range(cl) -> Values]]}

Tables == UNION {TablesOf(cl, n) : cl \in ColumnLists, n \in 0..MaxRows}

\* len(df)
NumRows(df) == Len(df.rows)

\* df[col] = values, values a list with one entry per row: an existing column
\* keeps its position and gets the new values, a new column is appended
SetColumn(df, col, values) ==
    [columns |-> IF col \in Range(df.columns) THEN df.columns
                 ELSE Append(df.columns, col),
     rows |-> [i \in 1..NumRows(df) |->
                 [c \in Range(df.columns) \cup {col} |->
                    IF c = col THEN values[i] ELSE df.rows[i][c]]]]

\* df[col] = scalar
SetColumnScalar(df, col, v) ==
    SetColumn(df, col, [i \in 1..NumRows(df) |-> v])

\* an exception: its type and its message str(e), the message given by its text
\* and the column names it lists (none but for a KeyError)
Exc(type, text, names) ==
    [type |-> type, message |-> [text |-> text, names |-> names]]

\* KeyError of a list selection: "None of [...] are in the [columns]" when no
\* key is a column, "[...] not in index" otherwise, [...] the missing keys
KeyErrorOf(missing, keys) ==
    Exc("KeyError",
        IF Len(missing) = Len(keys) THEN "None of [...] are in the [columns]"
        ELSE "[...] not in index",
        Range(missing))

\* the outcome of a call: the value it returned, or the exception it raised
Returned(v) == [ok |-> TRUE, value |-> v]
Raised(e) == [ok |-> FALSE, exc |-> e]

\* the keys of a column selection that are not columns of df, in key order
MissingKeys(df, keys) ==
    SelectSeq(keys, LAMBDA k : k \notin Range(df.columns))

\* a selection that keeps df's own column order: df.loc[:, df.columns.isin(keys)]
SelectColumnsInFrameOrder(df, keys) ==
    LET kept == SelectSeq(df.columns, LAMBDA c : c \in Range(keys))
    IN  IF MissingKeys(df, keys) # <<>>
        THEN Raised(KeyErrorOf(MissingKeys(df, keys), keys))
        ELSE Returned([columns |-> kept,
                       rows |-> [i \in 1..NumRows(df) |->
                                   [c \in Range(kept) |-> df.rows[i][c]]]])

\* a selection that never fails: df.reindex(columns=keys), a missing key
\* becomes a column of NaN (written 0)
SelectColumnsReindex(df, keys) ==
    Returned([columns |-> keys,
              rows |-> [i \in 1..NumRows(df) |->
                          [c \in Range(keys) |->
                             IF c \in Range(df.columns) THEN df.rows[i][c] ELSE 0]]])

\* df[keys], keys a list of column names: a new DataFrame with exactly these
\* columns in this order; KeyError naming the keys that are not columns of df
\* ("[...] not in index", or "None of [...] are in the [columns]" when none is)
SelectColumns(df, keys) ==
    IF MissingKeys(df, keys) # <<>>
    THEN Raised(KeyErrorOf(MissingKeys(df, keys), keys))
    ELSE Returned([columns |-> keys,
                   rows |-> [i \in 1..NumRows(df) |->
                               [c \in Range(keys) |-> df.rows[i][c]]]])

----------------------------------------------------------------------------
(* convert_sk_to_wp *)

initial_id == 20000

\* IDs assigned only to a table that has no ID column yet
AssignIdsIfAbsent(sk) ==
    IF "ID" \in Range(sk.columns) THEN sk
    ELSE SetColumn(sk, "ID", [i \in 1..NumRows(sk) |-> initial_id + (i - 1)])

\* sk_csv['ID'] = range(initial_id, initial_id + len(sk_csv))
AssignIds(sk) ==
    SetColumn(sk, "ID", [i \in 1..NumRows(sk) |-> initial_id + (i - 1)])

\* wp_csv.iloc[-1]: the last row taken for the defaults
WpDefaultsLastRow(wp) == wp.rows[Len(wp.rows)]

\* wp_defaults = wp_csv.iloc[0]
WpDefaults(wp) == wp.rows[1]

\* the loop without its test "col not in sk_csv.columns"
RECURSIVE FillAll(_, _, _, _)
FillAll(sk, cols, defaults, k) ==
    IF k > Len(cols) THEN sk
    ELSE FillAll(SetColumnScalar(sk, cols[k], defaults[cols[k]]),
                 cols, defaults, k + 1)

\* for col in wp_csv.columns: if col not in sk_csv.columns: sk_csv[col] = wp_defaults[col]
RECURSIVE FillMissing(_, _, _, _)
FillMissing(sk, cols, defaults, k) ==
    IF k > Len(cols) THEN sk
    ELSE FillMissing(IF cols[k] \notin Range(sk.columns)
                     THEN SetColumnScalar(sk, cols[k], defaults[cols[k]])
                     ELSE sk,
                     cols, defaults, k + 1)

\* wp_columns = list(wp_csv.columns): ID is not moved to the front
WpColumnsAsInReference(wp) == wp.columns

\* wp_columns = ['ID'] + [col for col in wp_csv.columns if col != 'ID']
WpColumns(wp) == <<"ID">> \o SelectSeq(wp.columns, LAMBDA c : c # "ID")

\* as SkAfterSkToWp, and the columns that are not WP columns are dropped in place
SkAfterSkToWpDropping(sk, wp) ==
    LET filled == IF NumRows(wp) = 0 THEN AssignIds(sk)
                  ELSE FillMissing(AssignIds(sk), wp.columns, WpDefaults(wp), 1)
        kept == SelectSeq(filled.columns, LAMBDA c : c \in Range(WpColumns(wp)))
    IN  [columns |-> kept,
         rows |-> [i \in 1..NumRows(filled) |-> [c \in Range(kept) |-> filled.rows[i][c]]]]

\* the object sk_csv after the call: IDs are assigned first, the defaults are
\* filled in only when wp_csv.iloc[0] does not raise
SkAfterSkToWp(sk, wp) ==
    IF NumRows(wp) = 0 THEN AssignIds(sk)
    ELSE FillMissing(AssignIds(sk), wp.columns, WpDefaults(wp), 1)

\* what convert_sk_to_wp(sk, wp) returns or raises
ConvertSkToWp(sk, wp) ==
    IF NumRows(wp) = 0 THEN Raised(Exc("IndexError", "single positional indexer is out-of-bounds", {}))
    ELSE SelectColumns(SkAfterSkToWp(sk, wp), WpColumns(wp))

----------------------------------------------------------------------------
(* convert_wp_to_sk *)

\* return wp_csv[sk_csv.columns]
ConvertWpToSk(wp, sk) == SelectColumns(wp, sk.columns)

----------------------------------------------------------------------------
(* CSV text: the list of its lines, each line the list of its fields.  The   *)
(* first line is the header.  The texts given to the program have distinct  *)
(* header names and as many fields in every line as in the header.          *)

\* position of column c in the column list cl
Position(cl, c) == CHOOSE i \in 1..Len(cl) : cl[i] = c

\* df.to_csv(output, index=False): the header line, then one line per row
ToCsv(df) ==
    <<df.columns>> \o
    [i \in 1..NumRows(df) |-> [j \in 1..Len(df.columns) |-> df.rows[i][df.columns[j]]]]

\* pd.read_csv(io.StringIO(text)): EmptyDataError on a text without a line
ReadCsv(text) ==
    IF text = <<>>
    THEN Raised(Exc("EmptyDataError", "No columns to parse from file", {}))
    ELSE Returned([columns |-> text[1],
                   rows |-> [i \in 1..(Len(text) - 1) |->
                               [c \in Range(text[1]) |-> text[i + 1][Position(text[1], c)]]]])

\* a file: whether it exists, and its text
File(text) == [exists |-> TRUE, text |-> text]
NoFile == [exists |-> FALSE, text |-> <<>>]

\* pd.read_csv(path)
ReadCsvFile(file) ==
    IF ~file.exists
    THEN Raised(Exc("FileNotFoundError", "[Errno 2] No such file or directory", {}))
    ELSE ReadCsv(file.text)

----------------------------------------------------------------------------
(* Calls of the conversion functions on arbitrary argument tables *)

NoResult == Raised(Exc("none", "", {}))

NoTable == [columns |-> <<>>, rows |-> <<>>]

ConvInit ==
    /\ sk_csv \in Tables
    /\ wp_csv \in Tables
    /\ sk_in = sk_csv
    /\ wp_in = wp_csv
    /\ called = "none"
    /\ result = NoResult

\* no call of the conversion functions is followed
ConvIdle ==
    /\ sk_csv = NoTable
    /\ wp_csv = NoTable
    /\ sk_in = NoTable
    /\ wp_in = NoTable
    /\ called = "none"
    /\ result = NoResult

convert_sk_to_wp ==
    /\ called = "none"
    /\ called' = "convert_sk_to_wp"
    /\ sk_csv' = SkAfterSkToWp(sk_csv, wp_csv)
    /\ result' = ConvertSkToWp(sk_csv, wp_csv)
    /\ UNCHANGED <<wp_csv, sk_in, wp_in>>
    /\ UNCHANGED <<httpVars, cliVars>>

convert_wp_to_sk ==
    /\ called = "none"
    /\ called' = "convert_wp_to_sk"
    /\ result' = ConvertWpToSk(wp_csv, sk_csv)
    /\ UNCHANGED <<sk_csv, wp_csv, sk_in, wp_in>>
    /\ UNCHANGED <<httpVars, cliVars>>

ConvNext == convert_sk_to_wp \/ convert_wp_to_sk

----------------------------------------------------------------------------
(* The bundled reference files and the tables that requests carry *)

\* contents resources/sk-reference.csv may have
SkReferenceFiles ==
    { NoFile,
      File(<< <<"Name">>, <<1>> >>),
      File(<< <<"Price", "Name">>, <<2, 1>> >>) }

\* contents resources/wp-reference.csv may have
WpReferenceFiles ==
    { NoFile,
      File(<< <<"ID", "Name", "Price">> >>),
      File(<< <<"ID", "Name", "Price">>, <<1, 2, 1>>, <<2, 1, 2>> >>),
      File(<< <<"Name", "ID">>, <<1, 2>> >>) }

\* CSV texts sent to the endpoints
RequestTexts ==
    { <<>>,
      << <<"Name">> >>,
      << <<"Name">>, <<1>>, <<2>> >>,
      << <<"Price", "Name">>, <<1, 2>>, <<2, 2>> >>,
      << <<"ID", "Name", "Price">>, <<2, 2, 1>> >> }

\* what a request carries: a text, or for an upload also a stream that cannot
\* be read or bytes that are not UTF-8
Body(text) == [kind |-> "text", text |-> text]
TextPayloads == {Body(t) : t \in RequestTexts}
FilePayloads ==
    TextPayloads \cup {[kind |-> "unreadable", text |-> <<>>],
                       [kind |-> "not-utf8", text |-> <<>>]}

----------------------------------------------------------------------------
(* The four POST handlers *)

Requests == 1..MaxRequests

NoRequest == [endpoint |-> "none", payload |-> Body(<<>>)]
NoResponse == [status |-> 0]

\* content = await file.read(); content.decode("utf-8")
ReadUpload(file) ==
    IF file.kind = "unreadable"
    THEN Raised(Exc("OSError", "read of closed file", {}))
    ELSE IF file.kind = "not-utf8"
    THEN Raised(Exc("UnicodeDecodeError", "'utf-8' codec can't decode byte", {}))
    ELSE Returned(file.text)

\* the try block once the text is at hand or its reading has failed, direction
\* sk-to-wp: read_csv, read_csv(WP_REFERENCE_FILE), convert_sk_to_wp, to_csv
TrySkToWp(content, wpfile) ==
    IF ~content.ok THEN content
    ELSE LET sk_df == ReadCsv(content.value)
             wp_df == ReadCsvFile(wpfile)
         IN  IF ~sk_df.ok THEN sk_df
             ELSE IF ~wp_df.ok THEN wp_df
             ELSE LET converted_df == ConvertSkToWp(sk_df.value, wp_df.value)
                  IN  IF ~converted_df.ok THEN converted_df
                      ELSE Returned(ToCsv(converted_df.value))

\* direction wp-to-sk: read_csv, read_csv(SK_REFERENCE_FILE), convert_wp_to_sk, to_csv
TryWpToSk(content, skfile) ==
    IF ~content.ok THEN content
    ELSE LET wp_df == ReadCsv(content.value)
             sk_df == ReadCsvFile(skfile)
         IN  IF ~wp_df.ok THEN wp_df
             ELSE IF ~sk_df.ok THEN sk_df
             ELSE LET converted_df == ConvertWpToSk(wp_df.value, sk_df.value)
                  IN  IF ~converted_df.ok THEN converted_df
                      ELSE Returned(ToCsv(converted_df.value))

\* the exception handled by the framework instead: its generic 500 response
GenericServerError(e) ==
    [status |-> 500, detail |-> [text |-> "Internal Server Error", names |-> {}]]

\* except Exception as e: raise HTTPException(status_code=500, detail=str(e))
HandleException(e) == [status |-> 500, detail |-> e.message]

\* return {"converted_csv": output.getvalue()}, or the except clause
ResponseOf(outcome) ==
    IF outcome.ok THEN [status |-> 200, converted_csv |-> outcome.value]
    ELSE HandleException(outcome.exc)

\* the upload kept in one module-level slot that every request overwrites
BindUploadGlobally(r, file) == [q \in Requests |-> file]

\* parameter file of the handler serving request r
BindUpload(r, file) == [upload EXCEPT ![r] = file]

\* a file handler up to "await file.read()", where other requests may run
Await(r, endpoint, file) ==
    /\ pc' = [pc EXCEPT ![r] = "awaiting"]
    /\ request' = [request EXCEPT ![r] = [endpoint |-> endpoint, payload |-> file]]
    /\ upload' = BindUpload(r, file)
    /\ UNCHANGED <<tried, response, sk_reference, wp_reference>>
    /\ UNCHANGED <<convVars, cliVars>>

\* a handler from the point where it no longer awaits to its response
Finish(r, outcome) ==
    /\ tried' = [tried EXCEPT ![r] = outcome]
    /\ response' = [response EXCEPT ![r] = ResponseOf(outcome)]
    /\ pc' = [pc EXCEPT ![r] = "done"]
    /\ UNCHANGED <<sk_reference, wp_reference>>
    /\ UNCHANGED <<convVars, cliVars>>

\* POST /api/converters/file/sk-to-wp
convert_sk_to_wp_file(r) ==
    \E file \in FilePayloads :
        /\ pc[r] = "idle"
        /\ Await(r, "file/sk-to-wp", file)

convert_sk_to_wp_file_resumed(r) ==
    /\ pc[r] = "awaiting"
    /\ request[r].endpoint = "file/sk-to-wp"
    /\ Finish(r, TrySkToWp(ReadUpload(upload[r]), wp_reference))
    /\ UNCHANGED <<request, upload>>

\* POST /api/converters/file/wp-to-sk
convert_wp_to_sk_file(r) ==
    \E file \in FilePayloads :
        /\ pc[r] = "idle"
        /\ Await(r, "file/wp-to-sk", file)

convert_wp_to_sk_file_resumed(r) ==
    /\ pc[r] = "awaiting"
    /\ request[r].endpoint = "file/wp-to-sk"
    /\ Finish(r, TryWpToSk(ReadUpload(upload[r]), sk_reference))
    /\ UNCHANGED <<request, upload>>

\* POST /api/converters/text/sk-to-wp
convert_sk_to_wp_text(r) ==
    \E body \in TextPayloads :
        /\ pc[r] = "idle"
        /\ request' = [request EXCEPT ![r] = [endpoint |-> "text/sk-to-wp", payload |-> body]]
        /\ Finish(r, TrySkToWp(Returned(body.text), wp_reference))
        /\ UNCHANGED upload

\* POST /api/converters/text/wp-to-sk
convert_wp_to_sk_text(r) ==
    \E body \in TextPayloads :
        /\ pc[r] = "idle"
        /\ request' = [request EXCEPT ![r] = [endpoint |-> "text/wp-to-sk", payload |-> body]]
        /\ Finish(r, TryWpToSk(Returned(body.text), sk_reference))
        /\ UNCHANGED upload

HttpInit ==
    /\ sk_reference \in SkReferenceFiles
    /\ wp_reference \in WpReferenceFiles
    /\ pc = [r \in Requests |-> "idle"]
    /\ request = [r \in Requests |-> NoRequest]
    /\ upload = [r \in Requests |-> Body(<<>>)]
    /\ tried = [r \in Requests |-> NoResult]
    /\ response = [r \in Requests |-> NoResponse]

\* no request is followed
HttpIdle ==
    /\ sk_reference = NoFile
    /\ wp_reference = NoFile
    /\ pc = [r \in Requests |-> "idle"]
    /\ request = [r \in Requests |-> NoRequest]
    /\ upload = [r \in Requests |-> Body(<<>>)]
    /\ tried = [r \in Requests |-> NoResult]
    /\ response = [r \in Requests |-> NoResponse]

HttpNext ==
    \E r \in Requests :
        \/ convert_sk_to_wp_file(r)
        \/ convert_sk_to_wp_file_resumed(r)
        \/ convert_wp_to_sk_file(r)
        \/ convert_wp_to_sk_file_resumed(r)
        \/ convert_sk_to_wp_text(r)
        \/ convert_wp_to_sk_text(r)

----------------------------------------------------------------------------
(* The command-line entry point *)

SK_REFERENCE_FILE == "resources/sk-reference.csv"
WP_REFERENCE_FILE == "resources/wp-reference.csv"
WP_TO_SK == "wp-to-sk"
SK_TO_WP == "sk-to-wp"

\* test_cmd = False  # False means test via IDE, True means command line with args
test_cmd == FALSE

\* values datetime.now().isoformat(timespec='seconds') may have
Timestamps == {"2024-05-01T10:00:00", "2024-05-01T10:00:01"}

\* os.path.join(BASE_DIR, "..", "outputs", f"output_{direction}_{current_date}.csv")
OutputPath(direction, current_date) ==
    "outputs/output_" \o direction \o "_" \o current_date \o ".csv"

\* paths the command line may name
InputPaths == {"sk.csv", "wp.csv"}
OutputPaths == {"output.csv", "converted.csv"}

Paths ==
    {SK_REFERENCE_FILE, WP_REFERENCE_FILE} \cup InputPaths \cup OutputPaths
    \cup {OutputPath(d, t) : d \in {SK_TO_WP, WP_TO_SK}, t \in Timestamps}

\* contents the input files may have
InputFiles == {NoFile} \cup {File(t) : t \in RequestTexts \ {<<>>}}

\* direction, input_file and output_file as the code below line 164 uses them:
\* the defaults of lines 151-154, replaced by the parsed arguments under test_cmd
Settings(args, current_date) ==
    LET direction == SK_TO_WP
        input_file == IF direction = SK_TO_WP THEN SK_REFERENCE_FILE
                      ELSE WP_REFERENCE_FILE
        output_file == OutputPath(direction, current_date)
    IN  IF test_cmd THEN args
        ELSE [direction |-> direction, input_file |-> input_file,
              output_file |-> output_file]

\* lines 166-172: read the input, read the reference of the direction, convert
Convert(direction, input_file, fs) ==
    LET input_df == ReadCsvFile(fs[input_file])
    IN  IF ~input_df.ok THEN input_df
        ELSE IF direction = SK_TO_WP
        THEN LET reference_df == ReadCsvFile(fs[WP_REFERENCE_FILE])
             IN  IF ~reference_df.ok THEN reference_df
                 ELSE ConvertSkToWp(input_df.value, reference_df.value)
        ELSE LET reference_df == ReadCsvFile(fs[SK_REFERENCE_FILE])
             IN  IF ~reference_df.ok THEN reference_df
                 ELSE ConvertWpToSk(input_df.value, reference_df.value)

\* the block under if __name__ == "__main__"; an exception ends the program
main(current_date) ==
    LET s == Settings(argv, current_date)
        converted_df == Convert(s.direction, s.input_file, files)
    IN  /\ exit = "running"
        /\ IF converted_df.ok
           THEN /\ files' = [files EXCEPT ![s.output_file] = File(ToCsv(converted_df.value))]
                /\ exit' = "done"
           ELSE /\ files' = files
                /\ exit' = "crashed"
        /\ UNCHANGED <<argv, files_in>>
        /\ UNCHANGED <<convVars, httpVars>>

\* the bundled reference files are in place; sk.csv and wp.csv hold any input
NoArgs == [direction |-> SK_TO_WP, input_file |-> "sk.csv", output_file |-> "output.csv"]

CliInit ==
    /\ argv \in [direction : {SK_TO_WP, WP_TO_SK}, input_file : InputPaths,
                 output_file : OutputPaths]
    /\ \E skref \in SkReferenceFiles \ {NoFile}, wpref \in WpReferenceFiles \ {NoFile},
          sk \in InputFiles, wp \in InputFiles :
          files = [p \in Paths |->
                     IF p = SK_REFERENCE_FILE THEN skref
                     ELSE IF p = WP_REFERENCE_FILE THEN wpref
                     ELSE IF p = "sk.csv" THEN sk
                     ELSE IF p = "wp.csv" THEN wp
                     ELSE NoFile]
    /\ files_in = files
    /\ exit = "running"

\* the program is not run from the command line
CliIdle ==
    /\ argv = NoArgs
    /\ files = [p \in Paths |-> NoFile]
    /\ files_in = files
    /\ exit = "running"

CliNext == \E current_date \in Timestamps : main(current_date)

----------------------------------------------------------------------------
(* Specifications *)

vars == <<convVars, httpVars, cliVars>>

\* the conversion functions called on arbitrary tables
Init == ConvInit /\ HttpIdle /\ CliIdle
Next == ConvNext
Spec == Init /\ [][Next]_vars

\* the HTTP service handling requests concurrently
InitHttp == ConvIdle /\ HttpInit /\ CliIdle
SpecHttp == InitHttp /\ [][HttpNext]_vars

\* one run of the program from the command line
InitCli == ConvIdle /\ HttpIdle /\ CliInit
SpecCli == InitCli /\ [][CliNext]_vars

----------------------------------------------------------------------------
(* Properties of the conversion functions, checked under Spec *)

SkToWpCalled == called = "convert_sk_to_wp" /\ NumRows(wp_in) > 0
WpToSkCalled == called = "convert_wp_to_sk"

Columns(df) == Range(df.columns)

\* C1: convert_sk_to_wp on an input of N rows and a non-empty reference returns
\* N rows whose ID column is 20000, 20001, ..., 20000+N-1 in row order, also
\* when the input already had an ID column.
C1_SequentialIds ==
    SkToWpCalled =>
        /\ result.ok
        /\ NumRows(result.value) = NumRows(sk_in)
        /\ \A i \in 1..NumRows(sk_in) : result.value.rows[i]["ID"] = 20000 + (i - 1)

C1_Witness ==
    /\ SkToWpCalled
    /\ NumRows(sk_in) = MaxRows
    /\ "ID" \in Columns(sk_in)
    /\ result.ok
    /\ result.value.rows[MaxRows]["ID"] = 20000 + (MaxRows - 1)

\* C2 as stated: the output's column list equals the WP reference's column list
\* exactly, in the reference's order, with ID as the first column.
C2_ColumnsEqualReference ==
    SkToWpCalled =>
        /\ result.ok
        /\ result.value.columns = wp_in.columns
        /\ result.value.columns[1] = "ID"

\* C2 amended: the output's column list is ID followed by the reference's other
\* columns in the reference's order, without repetition; it is the reference's
\* column list exactly when that list starts with ID; an input column that is
\* neither ID nor a reference column is not in the output.
C2_IdThenReferenceColumns ==
    SkToWpCalled =>
        /\ result.ok
        /\ result.value.columns[1] = "ID"
        /\ Columns(result.value) = Columns(wp_in) \cup {"ID"}
        /\ Len(result.value.columns) = Cardinality(Columns(result.value))
        /\ \A i, j \in 2..Len(result.value.columns) :
              i < j => Position(wp_in.columns, result.value.columns[i])
                         < Position(wp_in.columns, result.value.columns[j])
        /\ (wp_in.columns[1] = "ID" <=> result.value.columns = wp_in.columns)
        /\ \A c \in Columns(sk_in) \ (Columns(wp_in) \cup {"ID"}) :
              c \notin Columns(result.value)

C2_Witness ==
    /\ SkToWpCalled
    /\ wp_in.columns = <<"ID", "Name">>
    /\ sk_in.columns = <<"Price", "Name">>
    /\ NumRows(sk_in) > 0
    /\ result.ok
    /\ result.value.columns = <<"ID", "Name">>

\* C3 as stated: for every column of the WP reference that the SK input lacks,
\* every output row holds the reference's first-row value of that column.
C3_DefaultsForEveryAbsentColumn ==
    SkToWpCalled =>
        /\ result.ok
        /\ \A c \in Columns(wp_in) \ Columns(sk_in) :
              \A i \in 1..NumRows(result.value) :
                 result.value.rows[i][c] = wp_in.rows[1][c]

\* C3 amended: for every column of the WP reference other than ID that the SK
\* input lacks, every output row holds the reference's first-row value.
C3_DefaultsForAbsentColumnsButId ==
    SkToWpCalled =>
        /\ result.ok
        /\ \A c \in (Columns(wp_in) \ Columns(sk_in)) \ {"ID"} :
              \A i \in 1..NumRows(result.value) :
                 result.value.rows[i][c] = wp_in.rows[1][c]

C3_Witness ==
    /\ SkToWpCalled
    /\ sk_in.columns = <<"Name">>
    /\ wp_in.columns = <<"ID", "Name", "Price">>
    /\ NumRows(sk_in) = MaxRows
    /\ NumRows(wp_in) = MaxRows
    /\ wp_in.rows[1]["Price"] # wp_in.rows[MaxRows]["Price"]
    /\ result.ok
    /\ \A i \in 1..MaxRows : result.value.rows[i]["Price"] = wp_in.rows[1]["Price"]

\* C4: convert_wp_to_sk on a WP input that has every column of the SK reference
\* returns the reference's column list in the reference's order, the input's
\* rows in the input's order, each cell equal to the input's cell of the same
\* row and column.
C4_Projection ==
    (WpToSkCalled /\ Columns(sk_in) \subseteq Columns(wp_in)) =>
        /\ result.ok
        /\ result.value.columns = sk_in.columns
        /\ NumRows(result.value) = NumRows(wp_in)
        /\ \A i \in 1..NumRows(wp_in) : \A c \in Columns(sk_in) :
              result.value.rows[i][c] = wp_in.rows[i][c]

C4_Witness ==
    /\ WpToSkCalled
    /\ wp_in.columns = <<"Name", "Price">>
    /\ sk_in.columns = <<"Price", "Name">>
    /\ NumRows(wp_in) = MaxRows
    /\ wp_in.rows[1] # wp_in.rows[MaxRows]
    /\ result.ok
    /\ result.value.columns = <<"Price", "Name">>

\* C5: convert_wp_to_sk on a WP input that lacks a column of the SK reference
\* raises an error whose message names every missing column and no other
\* column, and returns no table.
C5_MissingColumnFails ==
    (WpToSkCalled /\ ~(Columns(sk_in) \subseteq Columns(wp_in))) =>
        /\ ~result.ok
        /\ result.exc.type = "KeyError"
        /\ result.exc.message.names = Columns(sk_in) \ Columns(wp_in)

C5_Witness ==
    /\ WpToSkCalled
    /\ wp_in.columns = <<"ID", "Name">>
    /\ sk_in.columns = <<"Name", "Price">>
    /\ NumRows(wp_in) > 0
    /\ ~result.ok
    /\ result.exc.message.names = {"Price"}

\* C8 as stated: after a call of either conversion function both argument
\* tables are as they were before the call.
C8_ArgumentsUnchanged ==
    called # "none" => (sk_csv = sk_in /\ wp_csv = wp_in)

\* C8 amended: convert_wp_to_sk leaves both argument tables unchanged;
\* convert_sk_to_wp, whether it returns or raises, leaves the reference table
\* unchanged and changes the source table in place: its ID column is set to
\* 20000, 20001, ... and, when the reference has a first row, the reference
\* columns it lacked are appended; the source keeps its rows, its columns stay
\* in their positions, and the values of its columns other than ID are as
\* before.
C8_FrameOfTheCalls ==
    /\ WpToSkCalled => (sk_csv = sk_in /\ wp_csv = wp_in)
    /\ called = "convert_sk_to_wp" =>
          /\ wp_csv = wp_in
          /\ NumRows(sk_csv) = NumRows(sk_in)
          /\ Len(sk_csv.columns) >= Len(sk_in.columns)
          /\ SubSeq(sk_csv.columns, 1, Len(sk_in.columns)) = sk_in.columns
          /\ Columns(sk_csv) =
                Columns(sk_in) \cup {"ID"}
                \cup (IF NumRows(wp_in) > 0 THEN Columns(wp_in) ELSE {})
          /\ Len(sk_csv.columns) = Cardinality(Columns(sk_csv))
          /\ \A i \in 1..NumRows(sk_in) : sk_csv.rows[i]["ID"] = 20000 + (i - 1)
          /\ \A i \in 1..NumRows(sk_in) : \A c \in Columns(sk_in) \ {"ID"} :
                sk_csv.rows[i][c] = sk_in.rows[i][c]

C8_Witness ==
    /\ called = "convert_sk_to_wp"
    /\ sk_in.columns = <<"Name", "Price">>
    /\ wp_in.columns = <<"ID", "Name">>
    /\ NumRows(sk_in) > 0
    /\ NumRows(wp_in) > 0
    /\ sk_csv.columns = <<"Name", "Price", "ID">>
    /\ wp_csv = wp_in

\* C10: for every column other than ID that both the SK input and the WP
\* reference have, row i of the output holds the input's row-i value; the
\* reference's first-row value never replaces it.
C10_InputValuesKept ==
    SkToWpCalled =>
        /\ result.ok
        /\ \A c \in (Columns(sk_in) \cap Columns(wp_in)) \ {"ID"} :
              \A i \in 1..NumRows(sk_in) :
                 result.value.rows[i][c] = sk_in.rows[i][c]

C10_Witness ==
    /\ SkToWpCalled
    /\ sk_in.columns = <<"Name">>
    /\ wp_in.columns = <<"ID", "Name", "Price">>
    /\ NumRows(sk_in) = MaxRows
    /\ sk_in.rows[1]["Name"] # sk_in.rows[MaxRows]["Name"]
    /\ sk_in.rows[1]["Name"] # wp_in.rows[1]["Name"]
    /\ result.ok
    /\ result.value.rows[1]["Name"] = sk_in.rows[1]["Name"]

----------------------------------------------------------------------------
(* Properties of the HTTP handlers, checked under SpecHttp *)

SkToWpEndpoints == {"file/sk-to-wp", "text/sk-to-wp"}
FileEndpoints == {"file/sk-to-wp", "file/wp-to-sk"}

\* the reference file the endpoint of request q loads
ReferenceOf(q) ==
    IF q.endpoint \in SkToWpEndpoints THEN wp_reference ELSE sk_reference

\* reading, parsing, loading the reference and converting all succeed for q:
\* the payload is a text with a header, the reference file exists and has a
\* header, and the conversion has what it needs (a first reference row for
\* sk-to-wp, every reference column in the payload for wp-to-sk)
EveryStepSucceeds(q) ==
    /\ q.payload.kind = "text"
    /\ q.payload.text # <<>>
    /\ ReferenceOf(q).exists
    /\ ReferenceOf(q).text # <<>>
    /\ IF q.endpoint \in SkToWpEndpoints
       THEN Len(ReferenceOf(q).text) >= 2
       ELSE Range(ReferenceOf(q).text[1]) \subseteq Range(q.payload.text[1])

\* C6: on each of the four endpoints an exception raised in the try block
\* gives a 500 response whose detail is the exception's message and which has
\* no converted_csv; a response has converted_csv only when every step
\* succeeded.
C6_ExceptionsBecome500 ==
    \A r \in Requests : pc[r] = "done" =>
        /\ ~tried[r].ok =>
              response[r] = [status |-> 500, detail |-> tried[r].exc.message]
        /\ ~EveryStepSucceeds(request[r]) =>
              /\ ~tried[r].ok
              /\ response[r].status = 500
              /\ "converted_csv" \notin DOMAIN response[r]
        /\ "converted_csv" \in DOMAIN response[r] =>
              /\ tried[r].ok
              /\ response[r].status = 200
              /\ EveryStepSucceeds(request[r])

C6_Witness ==
    \E r, q \in Requests :
        /\ pc[r] = "done"
        /\ request[r].endpoint = "file/wp-to-sk"
        /\ ~tried[r].ok
        /\ tried[r].exc.type = "KeyError"
        /\ response[r].status = 500
        /\ response[r].detail.names # {}
        /\ pc[q] = "done"
        /\ request[q].endpoint = "text/sk-to-wp"
        /\ ~tried[q].ok
        /\ tried[q].exc.type = "EmptyDataError"
        /\ response[q].status = 500

\* the response request q gets when it is the only request
Alone(q) ==
    LET content == IF q.endpoint \in FileEndpoints THEN ReadUpload(q.payload)
                   ELSE Returned(q.payload.text)
    IN  ResponseOf(IF q.endpoint \in SkToWpEndpoints
                   THEN TrySkToWp(content, wp_reference)
                   ELSE TryWpToSk(content, sk_reference))

\* C9: under any interleaving of the requests, the response of each is the one
\* it gets when it runs alone, a function of its payload and the reference
\* file; the IDs of every sk-to-wp response start at 20000.
C9_ResponseAsIfAlone ==
    \A r \in Requests : pc[r] = "done" =>
        /\ response[r] = Alone(request[r])
        /\ (/\ request[r].endpoint \in SkToWpEndpoints
            /\ response[r].status = 200
            /\ Len(response[r].converted_csv) >= 2)
           => /\ response[r].converted_csv[1][1] = "ID"
              /\ response[r].converted_csv[2][1] = 20000

C9_Witness ==
    \E r, q \in Requests :
        /\ r # q
        /\ pc[r] = "done" /\ pc[q] = "done"
        /\ request[r].endpoint = "file/sk-to-wp"
        /\ request[q].endpoint = "file/sk-to-wp"
        /\ request[r].payload # request[q].payload
        /\ response[r].status = 200
        /\ response[q].status = 200
        /\ response[r] # response[q]
        /\ Len(response[r].converted_csv) = 3
        /\ Len(response[q].converted_csv) = 2
        /\ response[r].converted_csv[2][1] = 20000
        /\ response[q].converted_csv[2][1] = 20000

----------------------------------------------------------------------------
(* Property of the command line, checked under SpecCli *)

\* what converting the given input file in the given direction yields
Requested == Convert(argv.direction, argv.input_file, files_in)

\* C7: run as program <direction> <input_file> <output_file>, the program reads
\* the given input file, converts it in the given direction with that
\* direction's reference file, and writes the resulting CSV to the given
\* output file.
C7_CommandLineArgumentsUsed ==
    (exit # "running" /\ Requested.ok) =>
        /\ exit = "done"
        /\ files[argv.output_file] = File(ToCsv(Requested.value))

====
